---- MODULE Spec2Model ----
(***************************************************************************)
(* Model of the donut screensaver (mlctrez/donut): the simulation core of  *)
(* the Game object - createDonuts (spawner), the per-tick motion and edge  *)
(* reflection in Game.Update, handleDonutCollisions / areDonutsColliding / *)
(* resolveCollision, the count keys and Game.Layout.                       *)
(*                                                                         *)
(* Numbers.  The program computes in float64.  The model computes in fixed *)
(* point: lengths and speeds are integers counting 1/FP pixel, unit        *)
(* vectors and angles are integers counting 1/NS.  Every product or        *)
(* quotient the code takes is taken here in the same order and rounded to  *)
(* the nearest unit, symmetric in sign, as IEEE rounding is.  math.Sqrt    *)
(* is the integer square root (rounded down), so distance < 2*radius and   *)
(* distance == 0 decide exactly as on the reals.                           *)
(*                                                                         *)
(* Randomness.  rand.Float64() is a generator with RandMod states whose    *)
(* value is state/RandMod in [0, 1); the draws inside one createDonuts     *)
(* call follow the generator's sequence in the order the code draws them,  *)
(* and the state the generator is in when createDonuts is called is any of *)
(* RandSeeds.                                                              *)
(*                                                                         *)
(* The window (Layout's arguments) is one of Screens; all are at least as  *)
(* large as a donut, as a full-screen window is.                           *)
(***************************************************************************)
EXTENDS Integers, Sequences, FiniteSets

VARIABLES
    donuts,        \* g.donuts
    screenWidth,   \* g.screenWidth (pixels)
    screenHeight,  \* g.screenHeight (pixels)
    numDonuts,     \* g.numDonuts
    pc,            \* where the frame loop is: "idle" between calls, "integrate"
                   \* and "collide" inside Update, "terminated" after Escape
    keys,          \* the keys inpututil reports as just pressed to this Update
    respawned,     \* this Update has called createDonuts
    result,        \* what the last call returned ("none" before the first)
    ticks          \* Updates completed since the collection was spawned

vars == <<donuts, screenWidth, screenHeight, numDonuts, pc, keys, respawned,
          result, ticks>>

-----------------------------------------------------------------------------
(* Bounds of the model *)

\* units per pixel of the fixed-point lengths
FP == 20
\* units of a unit vector / of a radian
NS == 1000
\* number of states of the random generator
RandMod == 64
\* number of generator states createDonuts may be called in
NSeeds == 2
\* Update calls explored after a respawn (full build)
MaxTicks == 2
\* Update calls explored after a respawn (build without collisions)
MaxTicksIntegrator == 24

-----------------------------------------------------------------------------
(* Program constants *)

initialDonuts == 6
maxDonuts == 50
minDonuts == 1
defaultWidth == 800
defaultHeight == 600
\* the build without collisions: const numDonuts = 6
fixedDonuts == 6

\* float64(bounds.Dx()) * donutScale: the scaled sprite is 64 x 64 pixels
donutWidth == 64 * FP
donutHeight == 64 * FP

\* window sizes Layout is called with (pixels)
Screens == {<<defaultWidth, defaultHeight>>, <<120, 100>>}

RandSeeds == {(s * 23 + 5) % RandMod : s \in 0..(NSeeds - 1)}

Keys == {"Escape", "Plus", "Minus"}

-----------------------------------------------------------------------------
(* float64 arithmetic in fixed point *)

Abs(a) == IF a < 0 THEN -a ELSE a

\* a / b rounded to the nearest integer, half away from zero (b > 0)
Div(a, b) ==
    IF a < 0 THEN -((b - 2 * a) \div (2 * b)) ELSE (2 * a + b) \div (2 * b)

Min(a, b) == IF a < b THEN a ELSE b

\* float64(n) for an int n of pixels
F(n) == n * FP

RECURSIVE SqrtNewton(_, _)
\* Newton's iteration for the integer square root, from x >= Sqrt(s), x > 0
SqrtNewton(s, x) ==
    LET y == (x + s \div x) \div 2
    IN  IF y >= x THEN x ELSE SqrtNewton(s, y)

\* a power of two above the square root of s
SqrtGuess(s) ==
    IF s < 65536
    THEN IF s < 256 THEN 16 ELSE IF s < 4096 THEN 64
         ELSE IF s < 16384 THEN 128 ELSE 256
    ELSE IF s < 1048576 THEN IF s < 262144 THEN 512 ELSE 1024
         ELSE IF s < 4194304 THEN 2048 ELSE IF s < 16777216 THEN 4096
         ELSE IF s < 268435456 THEN 16384 ELSE 46341

\* math.Sqrt: the largest r with r * r <= s
Sqrt(s) == IF s = 0 THEN 0 ELSE SqrtNewton(s, SqrtGuess(s))

\* math.Cos(angle) * NS for angle = 2*Pi*k/16
CosTab == <<1000, 924, 707, 383, 0, -383, -707, -924,
            -1000, -924, -707, -383, 0, 383, 707, 924>>

Cos(k) == Div(CosTab[(k % 16) + 1] * NS, 1000)

Sin(k) == Cos(k + 12)

-----------------------------------------------------------------------------
(* math/rand *)

\* the generator's next state
RandNext(s) == (37 * s + 11) % RandMod

RECURSIVE RandAt(_, _)
\* the generator's state k draws after s
RandAt(s, k) == IF k = 0 THEN s ELSE RandAt(RandNext(s), k - 1)

\* the generator's state after the eight draws of one turn of createDonuts' loop
RandSkip == [s \in 0..(RandMod - 1) |-> RandAt(s, 8)]

RECURSIVE RandLoop(_, _)
\* the generator's state when turn i of createDonuts' loop starts
RandLoop(s, i) == IF i = 0 THEN s ELSE RandLoop(RandSkip[s], i - 1)

-----------------------------------------------------------------------------
(* createDonuts *)

\* mutant: only the lower bound is enforced
ClampLowOnly(v, hi) == IF v < 0 THEN 0 ELSE v

\* "Ensure donuts stay within screen bounds", one axis; hi is
\* float64(screenSize) - donutSize
Clamp(v, hi) == IF v < 0 THEN 0 ELSE IF v > hi THEN hi ELSE v

\* the body of createDonuts' loop for index i, the generator in state s:
\* eight draws, in the order the code makes them
SpawnOne(sw, sh, dw, dh, i, s) ==
    LET r(k) == RandAt(s, k)
        centerX == Div(F(sw), 2)
        centerY == Div(F(sh), 2)
        spawnRadius == Div(Min(F(sw), F(sh)), 4)
        angle == (r(0) * 16) \div RandMod
        distance == Div(r(1) * spawnRadius, RandMod)
        x == centerX + Div(Cos(angle) * distance, NS) - Div(dw, 2)
        y == centerY + Div(Sin(angle) * distance, NS) - Div(dh, 2)
        vx == Div(3 * FP, 2) + Div(r(2) * 3 * FP, RandMod)
        vy == Div(3 * FP, 2) + Div(r(3) * 3 * FP, RandMod)
        rotationSpeed == Div(15 * NS, 1000) + Div(r(6) * 20 * NS, 1000 * RandMod)
    IN  [x |-> Clamp(x, F(sw) - dw),
         y |-> Clamp(y, F(sh) - dh),
         vx |-> IF 2 * r(4) < RandMod THEN -vx ELSE vx,
         vy |-> IF 2 * r(5) < RandMod THEN -vy ELSE vy,
         rotation |-> Div(r(7) * 6283 * NS, 1000 * RandMod),
         rotationSpeed |-> IF i % 2 = 1 THEN -rotationSpeed ELSE rotationSpeed]

\* createDonuts(screenWidth, screenHeight, donutWidth, donutHeight, numDonuts)
\* with the generator in state seed; donuts[i] of the code is element i + 1
createDonuts(sw, sh, dw, dh, n, seed) ==
    [k \in 1..n |-> SpawnOne(sw, sh, dw, dh, k - 1, RandLoop(seed, k - 1))]

-----------------------------------------------------------------------------
(* Game.Update: motion and edge reflection of one donut *)

\* mutant: the donut bounces back by the depth it went past the edge
BounceAxisByExcess(p, v, limit) ==
    LET q == p + v
    IN  IF q <= 0 \/ q >= limit
        THEN <<IF q <= 0 THEN -q ELSE 2 * limit - q, -v>>
        ELSE <<q, v>>

\* mutant: the velocity is reversed and the position is not clamped
BounceAxisNoClamp(p, v, limit) ==
    LET q == p + v
    IN  IF q <= 0 \/ q >= limit THEN <<q, -v>> ELSE <<q, v>>

\* one axis of the loop body: position += velocity, then "Bounce off edges";
\* returns <<position, velocity>>; limit is float64(screenSize) - donutSize
BounceAxis(p, v, limit) ==
    LET q == p + v
    IN  IF q <= 0 \/ q >= limit
        THEN <<IF q <= 0 THEN 0 ELSE limit, -v>>
        ELSE <<q, v>>

\* mutant: a bounce off a vertical edge also reverses the spin
AdvanceSpinReversedOnBounce(d, sw, sh, dw, dh) ==
    LET ax == BounceAxis(d.x, d.vx, F(sw) - dw)
        ay == BounceAxis(d.y, d.vy, F(sh) - dh)
    IN  [x |-> ax[1], y |-> ay[1], vx |-> ax[2], vy |-> ay[2],
         rotation |-> d.rotation + d.rotationSpeed,
         rotationSpeed |-> IF ax[2] # d.vx THEN -d.rotationSpeed
                           ELSE d.rotationSpeed]

\* the body of Update's loop "Update each donut" for donut d
Advance(d, sw, sh, dw, dh) ==
    LET ax == BounceAxis(d.x, d.vx, F(sw) - dw)
        ay == BounceAxis(d.y, d.vy, F(sh) - dh)
    IN  [x |-> ax[1], y |-> ay[1], vx |-> ax[2], vy |-> ay[2],
         rotation |-> d.rotation + d.rotationSpeed,
         rotationSpeed |-> d.rotationSpeed]

\* the loop "Update each donut" over the whole collection
IntegrateAll(ds, sw, sh, dw, dh) ==
    [k \in 1..Len(ds) |-> Advance(ds[k], sw, sh, dw, dh)]

-----------------------------------------------------------------------------
(* collisions *)

\* mutant: touching circles count as colliding
areDonutsCollidingOrTouching(x1, y1, x2, y2, radius) ==
    LET dx == x2 - x1
        dy == y2 - y1
        distance == Sqrt(dx * dx + dy * dy)
    IN  distance <= radius * 2

\* Game.areDonutsColliding(x1, y1, x2, y2, radius)
areDonutsColliding(x1, y1, x2, y2, radius) ==
    LET dx == x2 - x1
        dy == y2 - y1
        distance == Sqrt(dx * dx + dy * dy)
    IN  distance < radius * 2

\* mutant: the impulse is applied to separating pairs too
resolveCollisionAlways(d1, d2, c1x, c1y, c2x, c2y, dw) ==
    LET dx0 == c2x - c1x
        dy0 == c2y - c1y
        distance0 == Sqrt(dx0 * dx0 + dy0 * dy0)
        dx == IF distance0 = 0 THEN F(1) ELSE dx0
        dy == IF distance0 = 0 THEN 0 ELSE dy0
        distance == IF distance0 = 0 THEN F(1) ELSE distance0
        nx == Div(dx * NS, distance)
        ny == Div(dy * NS, distance)
        radius == Div(dw, 2)
        overlap == radius * 2 - distance
        separationX == Div(nx * overlap, 2 * NS)
        separationY == Div(ny * overlap, 2 * NS)
        dvx == d2.vx - d1.vx
        dvy == d2.vy - d1.vy
        dvn == Div(dvx * nx + dvy * ny, NS)
        impulse == Div(2 * dvn, 2)
        ix == Div(impulse * nx, NS)
        iy == Div(impulse * ny, NS)
    IN  << [d1 EXCEPT !.x = @ - separationX, !.y = @ - separationY,
                      !.vx = @ + ix, !.vy = @ + iy],
           [d2 EXCEPT !.x = @ + separationX, !.y = @ + separationY,
                      !.vx = @ - ix, !.vy = @ - iy] >>

\* Game.resolveCollision(donut1, donut2, center1X, center1Y, center2X, center2Y)
\* returns <<donut1, donut2>> as the call leaves them
resolveCollision(d1, d2, c1x, c1y, c2x, c2y, dw) ==
    LET dx0 == c2x - c1x
        dy0 == c2y - c1y
        distance0 == Sqrt(dx0 * dx0 + dy0 * dy0)
        dx == IF distance0 = 0 THEN F(1) ELSE dx0
        dy == IF distance0 = 0 THEN 0 ELSE dy0
        distance == IF distance0 = 0 THEN F(1) ELSE distance0
        nx == Div(dx * NS, distance)
        ny == Div(dy * NS, distance)
        radius == Div(dw, 2)
        overlap == radius * 2 - distance
        separationX == Div(nx * overlap, 2 * NS)
        separationY == Div(ny * overlap, 2 * NS)
        dvx == d2.vx - d1.vx
        dvy == d2.vy - d1.vy
        dvn == Div(dvx * nx + dvy * ny, NS)
        impulse == Div(2 * dvn, 2)
        ix == IF dvn > 0 THEN 0 ELSE Div(impulse * nx, NS)
        iy == IF dvn > 0 THEN 0 ELSE Div(impulse * ny, NS)
    IN  << [d1 EXCEPT !.x = @ - separationX, !.y = @ - separationY,
                      !.vx = @ + ix, !.vy = @ + iy],
           [d2 EXCEPT !.x = @ + separationX, !.y = @ + separationY,
                      !.vx = @ - ix, !.vy = @ - iy] >>

\* the body of handleDonutCollisions' inner loop for the pair (i, j), 0-based
CollidePair(ds, i, j, dw) ==
    LET radius == Div(dw, 2)
        donut1 == ds[i + 1]
        donut2 == ds[j + 1]
        center1X == donut1.x + radius
        center1Y == donut1.y + radius
        center2X == donut2.x + radius
        center2Y == donut2.y + radius
    IN  IF areDonutsColliding(center1X, center1Y, center2X, center2Y, radius)
        THEN LET r == resolveCollision(donut1, donut2, center1X, center1Y,
                                       center2X, center2Y, dw)
             IN  [ds EXCEPT ![i + 1] = r[1], ![j + 1] = r[2]]
        ELSE ds

\* mutant: only the first pair of each row (i, i + 1) is examined
CollideInnerFirstOnly(ds, i, j, dw) ==
    IF j >= Len(ds) THEN ds ELSE CollidePair(ds, i, j, dw)

RECURSIVE CollideInner(_, _, _, _)
\* for j := ...; j < len(g.donuts); j++
CollideInner(ds, i, j, dw) ==
    IF j >= Len(ds) THEN ds
    ELSE CollideInner(CollidePair(ds, i, j, dw), i, j + 1, dw)

RECURSIVE CollideOuter(_, _, _)
\* for i := ...; i < len(g.donuts); i++
CollideOuter(ds, i, dw) ==
    IF i >= Len(ds) THEN ds
    ELSE CollideOuter(CollideInner(ds, i, i + 1, dw), i + 1, dw)

\* Game.handleDonutCollisions
handleDonutCollisions(ds, dw) == CollideOuter(ds, 0, dw)

-----------------------------------------------------------------------------
(* The full build: state after main's construction of Game *)

InBounds(d, sw, sh) ==
    /\ 0 <= d.x /\ d.x <= F(sw) - donutWidth
    /\ 0 <= d.y /\ d.y <= F(sh) - donutHeight

Init ==
    /\ \E seed \in RandSeeds :
          donuts = createDonuts(defaultWidth, defaultHeight, donutWidth,
                                donutHeight, initialDonuts, seed)
    /\ screenWidth = defaultWidth
    /\ screenHeight = defaultHeight
    /\ numDonuts = initialDonuts
    /\ pc = "idle"
    /\ keys = {}
    /\ respawned = FALSE
    /\ result = "none"
    /\ ticks = 0

\* mutant: Layout stores the new size and keeps the collection
LayoutStoresOnly(outsideWidth, outsideHeight) ==
    /\ pc = "idle"
    /\ screenWidth' = outsideWidth
    /\ screenHeight' = outsideHeight
    /\ UNCHANGED <<donuts, ticks, numDonuts, pc, keys, respawned, result>>

\* Game.Layout(outsideWidth, outsideHeight), called between Updates
Layout(outsideWidth, outsideHeight) ==
    /\ pc = "idle"
    /\ IF screenWidth # outsideWidth \/ screenHeight # outsideHeight
       THEN /\ screenWidth' = outsideWidth
            /\ screenHeight' = outsideHeight
            /\ \E seed \in RandSeeds :
                  donuts' = createDonuts(outsideWidth, outsideHeight, donutWidth,
                                         donutHeight, numDonuts, seed)
            /\ ticks' = 0
       ELSE UNCHANGED <<screenWidth, screenHeight, donuts, ticks>>
    /\ UNCHANGED <<numDonuts, pc, keys, respawned, result>>

\* mutant: the upper limit is tested with <= instead of <
PlusAcceptedOffByOne(n, ks) == "Plus" \in ks /\ n <= maxDonuts

\* Update: the plus key is just pressed and g.numDonuts < maxDonuts
PlusAccepted(n, ks) == "Plus" \in ks /\ n < maxDonuts

\* mutant: the lower limit is tested with >= instead of >
MinusAcceptedOffByOne(n, ks) == "Minus" \in ks /\ n >= minDonuts

\* Update: the minus key is just pressed and g.numDonuts > minDonuts
MinusAccepted(n, ks) == "Minus" \in ks /\ n > minDonuts

\* Update, "Handle plus key to add more donuts": g is <<numDonuts, donuts>>
HandlePlus(g, ks, sw, sh, seed) ==
    IF PlusAccepted(g[1], ks)
    THEN <<g[1] + 1, createDonuts(sw, sh, donutWidth, donutHeight, g[1] + 1, seed)>>
    ELSE g

\* Update, "Handle minus key to remove donuts"
HandleMinus(g, ks, sw, sh, seed) ==
    IF MinusAccepted(g[1], ks)
    THEN <<g[1] - 1, createDonuts(sw, sh, donutWidth, donutHeight, g[1] - 1, seed)>>
    ELSE g

\* Update's key handling: the count and the collection when the loop
\* "Update each donut" starts
HandleKeys(n, ds, ks, sw, sh, seed1, seed2) ==
    HandleMinus(HandlePlus(<<n, ds>>, ks, sw, sh, seed1), ks, sw, sh, seed2)

\* Update, first part: the escape key returns ebiten.Termination, the count
\* keys respawn; ks are the keys just pressed in this frame
UpdateKeys(ks) ==
    /\ pc = "idle"
    /\ keys' = ks
    /\ IF "Escape" \in ks
       THEN /\ pc' = "terminated"
            /\ result' = "Termination"
            /\ UNCHANGED <<donuts, numDonuts, ticks, respawned>>
       ELSE LET plus == PlusAccepted(numDonuts, ks)
                minus == MinusAccepted(IF plus THEN numDonuts + 1 ELSE numDonuts, ks)
            IN  /\ plus \/ minus \/ ticks < MaxTicks
                /\ \E seed1 \in (IF plus /\ ~minus THEN RandSeeds ELSE {0}),
                      seed2 \in (IF minus THEN RandSeeds ELSE {0}) :
                      LET g == HandleKeys(numDonuts, donuts, ks, screenWidth,
                                          screenHeight, seed1, seed2)
                      IN  /\ numDonuts' = g[1]
                          /\ donuts' = g[2]
                /\ respawned' = (plus \/ minus)
                /\ ticks' = IF plus \/ minus THEN 0 ELSE ticks
                /\ pc' = "integrate"
                /\ UNCHANGED result
    /\ UNCHANGED <<screenWidth, screenHeight>>

\* mutant: the loop "Update each donut" is skipped after a respawn
UpdateIntegrateSkipsFresh ==
    /\ pc = "integrate"
    /\ donuts' = IF respawned THEN donuts
                 ELSE IntegrateAll(donuts, screenWidth, screenHeight,
                                   donutWidth, donutHeight)
    /\ pc' = "collide"
    /\ UNCHANGED <<screenWidth, screenHeight, numDonuts, keys, respawned, result,
                   ticks>>

\* Update, second part: the loop "Update each donut"
UpdateIntegrate ==
    /\ pc = "integrate"
    /\ donuts' = IntegrateAll(donuts, screenWidth, screenHeight, donutWidth,
                              donutHeight)
    /\ pc' = "collide"
    /\ UNCHANGED <<screenWidth, screenHeight, numDonuts, keys, respawned, result,
                   ticks>>

\* mutant: the collision pass is made twice
UpdateCollideTwice ==
    /\ pc = "collide"
    /\ donuts' = handleDonutCollisions(handleDonutCollisions(donuts, donutWidth),
                                       donutWidth)
    /\ pc' = "idle"
    /\ result' = "nil"
    /\ ticks' = ticks + 1
    /\ keys' = {}
    /\ respawned' = FALSE
    /\ UNCHANGED <<screenWidth, screenHeight, numDonuts>>

\* Update, last part: g.handleDonutCollisions() and return nil
UpdateCollide ==
    /\ pc = "collide"
    /\ donuts' = handleDonutCollisions(donuts, donutWidth)
    /\ pc' = "idle"
    /\ result' = "nil"
    /\ ticks' = ticks + 1
    /\ keys' = {}
    /\ respawned' = FALSE
    /\ UNCHANGED <<screenWidth, screenHeight, numDonuts>>

Next ==
    \/ \E s \in Screens : Layout(s[1], s[2])
    \/ \E ks \in SUBSET Keys : UpdateKeys(ks)
    \/ UpdateIntegrate
    \/ UpdateCollide

Spec == Init /\ [][Next]_vars

-----------------------------------------------------------------------------
(* The build without collisions (src/main.go): numDonuts is a constant, *)
(* Layout is the same code, Update ends after the loop "Update each donut" *)

InitIntegrator ==
    /\ \E seed \in RandSeeds :
          donuts = createDonuts(defaultWidth, defaultHeight, donutWidth,
                                donutHeight, fixedDonuts, seed)
    /\ screenWidth = defaultWidth
    /\ screenHeight = defaultHeight
    /\ numDonuts = fixedDonuts
    /\ pc = "idle"
    /\ keys = {}
    /\ respawned = FALSE
    /\ result = "none"
    /\ ticks = 0

\* Game.Update of src/main.go
UpdateIntegrator(ks) ==
    /\ pc = "idle"
    /\ keys' = ks
    /\ IF "Escape" \in ks
       THEN /\ pc' = "terminated"
            /\ result' = "Termination"
            /\ UNCHANGED <<donuts, ticks>>
       ELSE /\ ticks < MaxTicksIntegrator
            /\ donuts' = IntegrateAll(donuts, screenWidth, screenHeight,
                                      donutWidth, donutHeight)
            /\ result' = "nil"
            /\ ticks' = ticks + 1
            /\ pc' = "idle"
    /\ UNCHANGED <<screenWidth, screenHeight, numDonuts, respawned>>

NextIntegrator ==
    \/ \E s \in Screens : Layout(s[1], s[2])
    \/ \E ks \in SUBSET {"Escape"} : UpdateIntegrator(ks)

SpecIntegrator == InitIntegrator /\ [][NextIntegrator]_vars

-----------------------------------------------------------------------------
(* The operations on their own: one call of the loop body of Update, of   *)
(* areDonutsColliding and of the body of handleDonutCollisions' loop, on   *)
(* operands drawn from bounded sets.  donuts holds the operands, and after *)
(* the call the operands followed by what the call left of them.           *)

\* speeds (pixels per tick) and coordinates (pixels) of the operands
UnitSpeeds == {-3, -2, 0, 2}

UnitXs == {-4, 0, 1, 2, 300, defaultWidth - 66, defaultWidth - 65,
           defaultWidth - 64, defaultWidth - 60}

UnitYs == {-1, 0, 2, 200, defaultHeight - 66, defaultHeight - 64}

\* offsets (units) of the second operand's center from the first's
UnitOffsets ==
    {<<0, 0>>, <<1, 0>>, <<0, -1>>, <<F(40), 0>>, <<-F(40), 0>>, <<0, F(50)>>,
     <<F(30), F(40)>>, <<-F(24), F(32)>>, <<F(33), -F(21)>>,
     <<donutWidth - 1, 0>>, <<donutWidth, 0>>, <<donutWidth + 1, 0>>,
     <<0, donutWidth - 1>>, <<0, -donutWidth>>,
     <<Div(donutWidth * 3, 5), Div(donutWidth * 4, 5)>>,
     <<Div(donutWidth * 3, 5) - 1, Div(donutWidth * 4, 5)>>,
     <<F(60), F(60)>>}

UnitDonut(x, y, vx, vy) ==
    [x |-> x, y |-> y, vx |-> vx, vy |-> vy, rotation |-> 0,
     rotationSpeed |-> Div(15 * NS, 1000)]

InitUnit ==
    /\ screenWidth = defaultWidth
    /\ screenHeight = defaultHeight
    /\ keys = {}
    /\ respawned = FALSE
    /\ result = "none"
    /\ ticks = 0
    /\ \/ /\ pc = "single"
          /\ numDonuts = 1
          /\ \E x \in UnitXs, y \in UnitYs, vx \in UnitSpeeds, vy \in UnitSpeeds :
                donuts = <<UnitDonut(F(x), F(y), F(vx), F(vy))>>
       \/ /\ pc = "pair"
          /\ numDonuts = 2
          /\ \E o \in UnitOffsets, vx1 \in UnitSpeeds, vx2 \in UnitSpeeds,
                vy1 \in {0, 2}, vy2 \in {-2, 0} :
                donuts = <<UnitDonut(F(300), F(200), F(vx1), F(vy1)),
                           UnitDonut(F(300) + o[1], F(200) + o[2], F(vx2), F(vy2))>>

\* one turn of Update's loop "Update each donut"
UnitAdvance ==
    /\ pc = "single"
    /\ donuts' = donuts \o IntegrateAll(donuts, screenWidth, screenHeight,
                                        donutWidth, donutHeight)
    /\ pc' = "advanced"
    /\ UNCHANGED <<screenWidth, screenHeight, numDonuts, keys, respawned, result,
                   ticks>>

\* whether handleDonutCollisions finds donuts[0] and donuts[1] colliding
UnitColliding(ds) ==
    LET radius == Div(donutWidth, 2)
    IN  areDonutsColliding(ds[1].x + radius, ds[1].y + radius,
                           ds[2].x + radius, ds[2].y + radius, radius)

\* one call of areDonutsColliding on the centers of the pair
UnitDetect ==
    /\ pc = "pair"
    /\ result' = IF UnitColliding(donuts) THEN "true" ELSE "false"
    /\ pc' = "detected"
    /\ UNCHANGED <<donuts, screenWidth, screenHeight, numDonuts, keys,
                   respawned, ticks>>

\* one turn of handleDonutCollisions' loop, for the pair (0, 1)
UnitCollide ==
    /\ pc = "pair"
    /\ result' = IF UnitColliding(donuts) THEN "true" ELSE "false"
    /\ donuts' = donuts \o CollidePair(donuts, 0, 1, donutWidth)
    /\ pc' = "collided"
    /\ UNCHANGED <<screenWidth, screenHeight, numDonuts, keys, respawned, ticks>>

NextUnit == UnitAdvance \/ UnitDetect \/ UnitCollide

SpecUnit == InitUnit /\ [][NextUnit]_vars

-----------------------------------------------------------------------------
(* createDonuts on its own: one call, for a screen of SpawnScreens (some   *)
(* narrower or lower than a donut), a count of SpawnCounts and the         *)
(* generator in any of its states                                          *)

SpawnScreens ==
    {<<defaultWidth, defaultHeight>>, <<120, 100>>, <<100, 64>>, <<64, 64>>,
     <<200, 40>>, <<60, 100>>, <<40, 30>>}

SpawnCounts == {0, minDonuts, 2, 7, maxDonuts}

InitSpawner ==
    /\ pc = "spawn"
    /\ donuts = <<>>
    /\ \E s \in SpawnScreens : screenWidth = s[1] /\ screenHeight = s[2]
    /\ numDonuts \in SpawnCounts
    /\ keys = {}
    /\ respawned = FALSE
    /\ result = "none"
    /\ ticks = 0

\* g.donuts = createDonuts(g.screenWidth, g.screenHeight, g.donutWidth,
\*                         g.donutHeight, g.numDonuts)
UnitSpawn ==
    /\ pc = "spawn"
    /\ \E seed \in 0..(RandMod - 1) :
          donuts' = createDonuts(screenWidth, screenHeight, donutWidth,
                                 donutHeight, numDonuts, seed)
    /\ pc' = "spawned"
    /\ respawned' = TRUE
    /\ UNCHANGED <<screenWidth, screenHeight, numDonuts, keys, result, ticks>>

NextSpawner == UnitSpawn

SpecSpawner == InitSpawner /\ [][NextSpawner]_vars

-----------------------------------------------------------------------------
(* Claims *)

AllInBounds ==
    \A k \in 1..Len(donuts) : InBounds(donuts[k], screenWidth, screenHeight)

\* the collections createDonuts can return for the screen and count n
Spawns(sw, sh, n) ==
    {createDonuts(sw, sh, donutWidth, donutHeight, n, seed) : seed \in RandSeeds}

\* C1: whenever an Update has completed (Integrator pass, then Collision
\* Resolver pass), every donut lies within the screen:
\* 0 <= x <= screenWidth - donutWidth and 0 <= y <= screenHeight - donutHeight
C1_BoundsAfterTick == (pc = "idle" /\ result = "nil") => AllInBounds

\* C2: in every state the count is within minDonuts..maxDonuts and the
\* collection holds exactly numDonuts donuts
C2_CountInRange ==
    /\ minDonuts <= numDonuts
    /\ numDonuts <= maxDonuts
    /\ Len(donuts) = numDonuts

\* C2 witness: the count has been driven to the maximum and a further
\* increment, requested there, was refused
C2_AtMax ==
    /\ numDonuts = maxDonuts
    /\ pc = "collide"
    /\ "Plus" \in keys
    /\ ~respawned

\* C3: an increment request at maxDonuts and a decrement request at minDonuts
\* change neither the count nor the collection (no respawn), and the Update
\* they are made in returns nil
C3_OutOfRangeNoOp ==
    [][/\ (/\ pc = "idle"
           /\ pc' = "integrate"
           /\ \/ keys' = {"Plus"} /\ numDonuts = maxDonuts
              \/ keys' = {"Minus"} /\ numDonuts = minDonuts)
          => (numDonuts' = numDonuts /\ donuts' = donuts /\ ~respawned')
       /\ (pc = "collide" /\ pc' = "idle" /\ ~respawned /\ keys # {})
          => (result' = "nil" /\ numDonuts' = numDonuts)]_vars

\* C3 witness: a decrement was requested at minDonuts, nothing was respawned,
\* and the Update has gone on to its collision pass
C3_RefusedAtMin ==
    /\ numDonuts = minDonuts
    /\ keys = {"Minus"}
    /\ pc = "collide"
    /\ ~respawned

C5_RespawnSkipsTick ==
    [][(pc = "collide" /\ pc' = "idle" /\ respawned)
        => donuts' \in Spawns(screenWidth, screenHeight, numDonuts)]_vars

\* C5 as amended: an Update that accepts a count change respawns at the new
\* count and then, in the same call, runs the Integrator and the Collision
\* Resolver on the fresh collection; when it returns, the donuts are the
\* spawned ones advanced by one tick
C5_RespawnThenTick ==
    [][/\ (pc = "idle" /\ numDonuts' # numDonuts)
          => /\ pc' = "integrate"
             /\ respawned'
             /\ donuts' \in Spawns(screenWidth, screenHeight, numDonuts')
       /\ (pc = "collide" /\ pc' = "idle" /\ respawned)
          => donuts' \in
               {handleDonutCollisions(
                    IntegrateAll(s, screenWidth, screenHeight, donutWidth,
                                 donutHeight), donutWidth) :
                  s \in Spawns(screenWidth, screenHeight, numDonuts)}]_vars

\* C5 witness: inside an Update that accepted a count change, the Integrator
\* has run and the donuts are no longer where createDonuts put them
C5_FreshAdvanced ==
    /\ pc = "collide"
    /\ respawned
    /\ donuts \notin Spawns(screenWidth, screenHeight, numDonuts)

\* some pair of the collection overlaps
SomeColliding ==
    \E i \in 1..Len(donuts), j \in 1..Len(donuts) :
        /\ i < j
        /\ UnitColliding(<<donuts[i], donuts[j]>>)

\* C6: within an Update the Integrator has advanced and edge-reflected every
\* donut before the Collision Resolver examines a pair, and the Resolver
\* makes exactly one pass, after which Update returns
C6_MotionThenCollision ==
    [][/\ pc = "integrate"
          => /\ pc' = "collide"
             /\ donuts' = IntegrateAll(donuts, screenWidth, screenHeight,
                                       donutWidth, donutHeight)
       /\ pc' = "collide" => (pc = "integrate" /\ AllInBounds')
       /\ pc = "collide"
          => /\ pc' = "idle"
             /\ donuts' = handleDonutCollisions(donuts, donutWidth)
       /\ (pc' = "idle" /\ pc # "idle") => pc = "collide"]_vars

\* C6 witness: the Integrator has moved every donut of a collection that
\* has been through a tick before, and the Resolver is about to find a
\* colliding pair
C6_ReadyToCollide ==
    /\ pc = "collide"
    /\ ticks >= 1
    /\ Len(donuts) >= 2
    /\ SomeColliding

\* the square of the distance between the centers of two donuts
Dist2(a, b) == (b.x - a.x) * (b.x - a.x) + (b.y - a.y) * (b.y - a.y)

\* C7: two donuts are reported colliding exactly when the distance between
\* their centers is less than 2 * radius: just inside collides, exactly
\* 2 * radius apart or farther does not
C7_CollisionPredicate ==
    pc = "detected"
    => LET reach == 2 * Div(donutWidth, 2)
       IN  (result = "true") <=> (Dist2(donuts[1], donuts[2]) < reach * reach)

\* C7 witness: centers one unit less than 2 * radius apart were reported
\* colliding
C7_JustInside ==
    /\ pc = "detected"
    /\ donuts[2].x - donuts[1].x = donutWidth - 1
    /\ donuts[2].y = donuts[1].y
    /\ result = "true"

\* the axis from donut a to donut b as resolveCollision takes it: the
\* difference of the centers, (1, 0) when they coincide
Axis(a, b) ==
    IF a.x = b.x /\ a.y = b.y THEN <<F(1), 0>> ELSE <<b.x - a.x, b.y - a.y>>

Dot(u, v) == u[1] * v[1] + u[2] * v[2]

\* C8: resolving a colliding pair (a, b) with axis n from a to b and
\* dvn = (v_b - v_a) . n: the sum of the velocities is kept; if dvn > 0 the
\* velocities are unchanged and the pair is still pushed apart; otherwise
\* the components along n are exchanged and those across n are kept
\* (exactly on the x and y axes, within two units of rounding on an
\* oblique axis)
C8_VelocityResolution ==
    (pc = "collided" /\ result = "true")
    => LET a == donuts[1]
           b == donuts[2]
           a2 == donuts[3]
           b2 == donuts[4]
           n == Axis(a, b)
           t == <<-n[2], n[1]>>
           len == Sqrt(Dot(n, n))
           va == <<a.vx, a.vy>>
           vb == <<b.vx, b.vy>>
           va2 == <<a2.vx, a2.vy>>
           vb2 == <<b2.vx, b2.vy>>
           dvn == Dot(vb, n) - Dot(va, n)
           slack == 2 * (len + 1)
       IN  /\ a2.vx + b2.vx = a.vx + b.vx
           /\ a2.vy + b2.vy = a.vy + b.vy
           /\ dvn > 0
              => /\ va2 = va /\ vb2 = vb
                 /\ len + 4 < donutWidth => Dist2(a2, b2) > Dist2(a, b)
           /\ dvn <= 0
              => /\ Abs(Dot(va2, n) - Dot(vb, n)) <= slack
                 /\ Abs(Dot(vb2, n) - Dot(va, n)) <= slack
                 /\ Abs(Dot(va2, t) - Dot(va, t)) <= slack
                 /\ Abs(Dot(vb2, t) - Dot(vb, t)) <= slack
                 /\ n[2] = 0 => /\ a2.vx = b.vx /\ b2.vx = a.vx
                                /\ a2.vy = a.vy /\ b2.vy = b.vy
                 /\ n[1] = 0 => /\ a2.vy = b.vy /\ b2.vy = a.vy
                                /\ a2.vx = a.vx /\ b2.vx = b.vx

\* C8 witness: the head-on pair on the x axis, vx1 = +2 and vx2 = -2, came
\* out with vx1 = -2 and vx2 = +2
C8_HeadOn ==
    /\ pc = "collided"
    /\ result = "true"
    /\ donuts[2].y = donuts[1].y /\ donuts[2].x = donuts[1].x + F(40)
    /\ donuts[1].vx = F(2) /\ donuts[2].vx = F(-2)
    /\ donuts[3].vx = F(-2) /\ donuts[4].vx = F(2)

\* one axis of the Integrator's step as the claim states it: q is the
\* coordinate after position += velocity
AxisReflected(p, v, p2, v2, limit) ==
    LET q == p + v
    IN  IF q <= 0 THEN p2 = 0 /\ v2 = -v
        ELSE IF q >= limit THEN p2 = limit /\ v2 = -v
        ELSE p2 = q /\ v2 = v

\* C9: after position += velocity, an axis whose coordinate is <= 0 or
\* >= screenSize - donutSize has its velocity negated and its coordinate
\* set to that bound, any other axis keeps its velocity; the axes are
\* independent; a donut at x = 0 with vx = -2 ends at x = 0 with vx = 2
C9_EdgeReflection ==
    pc = "advanced"
    => LET d == donuts[1]
           e == donuts[2]
       IN  /\ AxisReflected(d.x, d.vx, e.x, e.vx, F(screenWidth) - donutWidth)
           /\ AxisReflected(d.y, d.vy, e.y, e.vy, F(screenHeight) - donutHeight)
           /\ (d.x = 0 /\ d.vx = F(-2)) => (e.x = 0 /\ e.vx = F(2))
           /\ e.rotation = d.rotation + d.rotationSpeed
           /\ e.rotationSpeed = d.rotationSpeed

\* C9 witness: a corner hit: the donut at x = 0 with vx = -2 also reached
\* the bottom edge, and both velocities were reversed
C9_CornerHit ==
    /\ pc = "advanced"
    /\ donuts[1].x = 0 /\ donuts[1].vx = F(-2)
    /\ donuts[1].vy = F(2)
    /\ donuts[2].x = 0 /\ donuts[2].vx = F(2)
    /\ donuts[2].y = F(screenHeight) - donutHeight /\ donuts[2].vy = F(-2)

C11_SpawnInBounds ==
    pc = "spawned"
    => /\ Len(donuts) = numDonuts
       /\ \A k \in 1..Len(donuts) : InBounds(donuts[k], screenWidth, screenHeight)

\* a spawned coordinate c on an axis whose range ends at hi: within 0..hi
\* when the screen is at least as large as the donut, and otherwise (the
\* range is empty) one of the two bounds 0 and hi < 0
SpawnedOnAxis(c, hi) == IF hi >= 0 THEN 0 <= c /\ c <= hi ELSE c \in {0, hi}

\* C11 as amended: createDonuts returns exactly count donuts; on an axis
\* where the screen is at least as large as the donut every coordinate is
\* within 0 .. screenSize - donutSize (screens smaller than the spawn
\* circle included); on an axis where the screen is smaller than the donut
\* the coordinate is 0 or the negative screenSize - donutSize
C11_SpawnClamped ==
    pc = "spawned"
    => /\ Len(donuts) = numDonuts
       /\ \A k \in 1..Len(donuts) :
             /\ SpawnedOnAxis(donuts[k].x, F(screenWidth) - donutWidth)
             /\ SpawnedOnAxis(donuts[k].y, F(screenHeight) - donutHeight)

\* C11 witness: maxDonuts donuts spawned on a screen larger than a donut and
\* smaller than the spawn circle needs, where the clamp acted on both ends
C11_ClampedBothEnds ==
    /\ pc = "spawned"
    /\ numDonuts = maxDonuts
    /\ Len(donuts) = maxDonuts
    /\ F(screenHeight) > donutHeight
    /\ \E k \in 1..Len(donuts) : donuts[k].y = 0
    /\ \E k \in 1..Len(donuts) : donuts[k].y = F(screenHeight) - donutHeight

\* the centers of a and b are 2 * radius apart, to the rounding of the
\* fixed-point square root and of the unit axis (three units)
SeparatedByDiameter(a, b) ==
    LET reach == 2 * Div(donutWidth, 2)
    IN  /\ (reach - 3) * (reach - 3) <= Dist2(a, b)
        /\ Dist2(a, b) <= (reach + 3) * (reach + 3)

\* the pair (a, b) resolved into (a2, b2): each donut moved by the same
\* amount in opposite directions along the axis from a to b, and the
\* centers left 2 * radius apart
PushedApart(a, b, a2, b2) ==
    LET n == Axis(a, b)
        ma == <<a2.x - a.x, a2.y - a.y>>
        mb == <<b2.x - b.x, b2.y - b.y>>
    IN  /\ ma[1] = -mb[1] /\ ma[2] = -mb[2]
        /\ Dot(ma, n) <= 0 /\ Dot(mb, n) >= 0
        /\ n[2] = 0 => ma[2] = 0
        /\ n[1] = 0 => ma[1] = 0
        /\ SeparatedByDiameter(a2, b2)

\* C12: after resolveCollision on a colliding pair the first donut has
\* been moved by -overlap/2 and the second by +overlap/2 along the axis
\* between the centers, so the centers end 2 * radius apart; with
\* coincident centers the axis is (1, 0) and the pair ends 2 * radius apart
\* along x
C12_OverlapRemoved ==
    (pc = "collided" /\ result = "true")
    => /\ PushedApart(donuts[1], donuts[2], donuts[3], donuts[4])
       /\ (donuts[1].x = donuts[2].x /\ donuts[1].y = donuts[2].y)
          => /\ donuts[4].y = donuts[3].y
             /\ donuts[4].x - donuts[3].x = 2 * Div(donutWidth, 2)

\* C12 for pairs whose centers do not coincide: the overlap is removed
C12_DistinctCentersSeparated ==
    (/\ pc = "collided"
     /\ result = "true"
     /\ ~(donuts[1].x = donuts[2].x /\ donuts[1].y = donuts[2].y))
    => PushedApart(donuts[1], donuts[2], donuts[3], donuts[4])

\* coincident centers come out of resolveCollision one pixel less than
\* 2 * radius apart along x: the overlap is taken from the substituted
\* distance 1 and not from the distance 0 of the centers
C12_CoincidentLeftOverlapping ==
    /\ pc = "collided"
    /\ result = "true"
    /\ donuts[1].x = donuts[2].x /\ donuts[1].y = donuts[2].y
    /\ donuts[4].y = donuts[3].y
    /\ donuts[4].x - donuts[3].x = 2 * Div(donutWidth, 2) - F(1)
    /\ UnitColliding(<<donuts[3], donuts[4]>>)

RECURSIVE ScanRow(_, _, _)
\* the collection ds after the pairs (i, i + 1), ..., (i, i + m) have been
\* examined in that order, each on what the one before left
ScanRow(ds, i, m) ==
    IF m = 0 THEN ds
    ELSE CollidePair(ScanRow(ds, i, m - 1), i, i + m, donutWidth)

RECURSIVE ScanRows(_, _)
\* the collection ds after every pair (i, j) with i < r and i < j has been
\* examined, in ascending lexicographic order
ScanRows(ds, r) ==
    IF r = 0 THEN ds
    ELSE LET prev == ScanRows(ds, r - 1)
         IN  ScanRow(prev, r - 1, Len(prev) - r)

\* C13: one Resolver pass examines every pair (i, j), i < j, exactly once
\* in ascending lexicographic order, each pair tested and resolved on the
\* positions and velocities the earlier pairs of the pass left; the pass
\* keeps the number of donuts, and with a single donut it changes nothing
C13_SequentialPairScan ==
    [][pc = "collide"
        => /\ donuts' = ScanRows(donuts, Len(donuts))
           /\ Len(donuts') = Len(donuts)
           /\ Len(donuts) = 1 => donuts' = donuts]_vars

\* C13 witness: the Resolver is about to scan a collection in which the
\* pair (i, j) collides and its resolution changes the outcome of the test
\* of a later pair, (i, k) or (j, k) with k > j
C13_LaterPairSeesUpdate ==
    /\ pc = "collide"
    /\ Len(donuts) >= 3
    /\ Len(donuts) <= 7
    /\ \E i \in 1..Len(donuts), j \in 1..Len(donuts), k \in 1..Len(donuts) :
          /\ i < j /\ j < k
          /\ UnitColliding(<<donuts[i], donuts[j]>>)
          /\ LET r == CollidePair(donuts, i - 1, j - 1, donutWidth)
             IN  \E a \in {i, j} :
                    UnitColliding(<<donuts[a], donuts[k]>>)
                        # UnitColliding(<<r[a], r[k]>>)

\* the donut at an even index of the code (odd k here) spins with
\* rotationSpeed > 0, the donut at an odd index with rotationSpeed < 0
SpinByIndex(ds) ==
    \A k \in 1..Len(ds) :
        IF (k - 1) % 2 = 0 THEN ds[k].rotationSpeed > 0
        ELSE ds[k].rotationSpeed < 0

\* C14: in every state, before and after every step, the spin direction is
\* fixed by the index; the Integrator adds rotationSpeed to rotation and
\* keeps rotationSpeed; the Collision Resolver changes neither
C14_SpinFixedByIndex ==
    [][/\ SpinByIndex(donuts)
       /\ SpinByIndex(donuts')
       /\ pc = "integrate"
          => \A k \in 1..Len(donuts) :
                /\ donuts'[k].rotation
                      = donuts[k].rotation + donuts[k].rotationSpeed
                /\ donuts'[k].rotationSpeed = donuts[k].rotationSpeed
       /\ pc = "collide"
          => \A k \in 1..Len(donuts) :
                /\ donuts'[k].rotation = donuts[k].rotation
                /\ donuts'[k].rotationSpeed = donuts[k].rotationSpeed]_vars

\* C14 witness: after a resize and a count change, ticks with a bounce off
\* a vertical edge and a collision pass have run, and the second donut
\* still spins counter-clockwise
C14_SpinKeptThroughTicks ==
    /\ pc = "collide"
    /\ ticks >= 1
    /\ screenWidth # defaultWidth
    /\ numDonuts # initialDonuts
    /\ Len(donuts) >= 2
    /\ donuts[2].rotationSpeed < 0
    /\ donuts[2].x \in {0, F(screenWidth) - donutWidth}
    /\ SomeColliding

\* C15: whenever the Integrator reflects a donut off an edge, the velocity
\* on that axis afterwards points into the screen: >= 0 where the position
\* was clamped to 0, <= 0 where it was clamped to screenSize - donutSize;
\* also for a donut the Collision Resolver pushed past an edge on the tick
\* before
C15_ReflectedInward ==
    [][pc = "integrate"
        => \A k \in 1..Len(donuts) :
              /\ donuts[k].x + donuts[k].vx <= 0 => donuts'[k].vx >= 0
              /\ donuts[k].y + donuts[k].vy <= 0 => donuts'[k].vy >= 0
              /\ (/\ donuts[k].x + donuts[k].vx > 0
                  /\ donuts[k].x + donuts[k].vx >= F(screenWidth) - donutWidth)
                 => donuts'[k].vx <= 0
              /\ (/\ donuts[k].y + donuts[k].vy > 0
                  /\ donuts[k].y + donuts[k].vy >= F(screenHeight) - donutHeight)
                 => donuts'[k].vy <= 0]_vars

\* C15 for donuts that start the tick within the screen: the reflected
\* velocity points into the screen
C15_ReflectedInwardFromInside ==
    [][pc = "integrate"
        => \A k \in 1..Len(donuts) :
              InBounds(donuts[k], screenWidth, screenHeight)
              => /\ donuts[k].x + donuts[k].vx <= 0 => donuts'[k].vx >= 0
                 /\ donuts[k].y + donuts[k].vy <= 0 => donuts'[k].vy >= 0
                 /\ (/\ donuts[k].x + donuts[k].vx > 0
                     /\ donuts[k].x + donuts[k].vx
                           >= F(screenWidth) - donutWidth)
                    => donuts'[k].vx <= 0
                 /\ (/\ donuts[k].y + donuts[k].vy > 0
                     /\ donuts[k].y + donuts[k].vy
                           >= F(screenHeight) - donutHeight)
                    => donuts'[k].vy <= 0]_vars

\* a donut that the Collision Resolver left beyond the left or the top
\* edge, moving back into the screen, has been clamped to the edge by the
\* Integrator with its velocity reversed: it now moves out of the screen
C15_SentOutward ==
    /\ pc = "collide"
    /\ ticks >= 1
    /\ \E k \in 1..Len(donuts) :
          \/ donuts[k].x = 0 /\ donuts[k].vx < 0
          \/ donuts[k].y = 0 /\ donuts[k].vy < 0

====
